---------------------------- MODULE Spec2Model ----------------------------
(***************************************************************************)
(* A model of lightningutil.py: open_and_preprocess (the Preprocessor) and *)
(* case_study_plotting (the Case-study plotter).                           *)
(*                                                                         *)
(* Data values are symbolic: the value a file stores for variable n at day *)
(* d, hour h and grid cell c is the tuple <<n, d, h, c>>, so every stored  *)
(* value is distinct and carries its origin; the three special values are  *)
(* the sentinel 1e15, the fill value a file may declare for its variables, *)
(* and NaN.  A timestamp is a year, a month and a number of hours counted  *)
(* from 00:00 of day 1 of that month.                                      *)
(***************************************************************************)
EXTENDS Integers, Sequences, FiniteSets, TLC

(***************************************************************************)
(* Bounds of the model.                                                    *)
(***************************************************************************)
MaxCand == 2
MaxDays == 2
MaxHours == 2
NCells == 2
MaxFigs == 3

(***************************************************************************)
(* Values.                                                                 *)
(***************************************************************************)
Sentinel == <<"1e15">>
NaN == <<"nan">>
DeclaredFill == <<"-999">>
NoFill == <<"nofill">>

\* names the caller may pass as candidates (taken from the list `variables`)
CandNames == {"flashes", "cape"}

Unbound == "<unbound>"
NoDs == [open |-> FALSE]
NoField == [name |-> Unbound]

VARIABLES
    ppc,             \* position in open_and_preprocess
    filename,        \* argument: the path, a sequence of characters
    variables,       \* argument: the ordered candidate names
    file,            \* the content of the file at `filename` (or NoDs)
    ds,              \* the opened, decoded dataset (or NoDs)
    var,             \* the loop variable of the scan
    scanIdx,         \* index of the next candidate the scan looks up
    lookups,         \* the names looked up so far, in order
    datetime_range,  \* the derived timestamps
    newds,           \* the returned field (or NoField)
    perror,          \* the error the call failed with ("" if none)
    handleOpen,      \* the file handle opened by the call is open
    fileWrites       \* number of writes to files made by the call

preVars == <<ppc, filename, variables, file, ds, var, scanIdx, lookups,
             datetime_range, newds, perror, handleOpen, fileWrites>>

VARIABLES
    serialized,  \* the callers are serialized externally
    figs,        \* the registry: the open figures, the current one last
    nextFig,     \* the next figure to be created
    cstat,       \* per caller: "idle", "running", "returned" or "failed"
    cpc,         \* per caller: index in PlotSteps of the next statement
    cargs,       \* per caller: the arguments of its call
    cfig,        \* per caller: the figure its call created (0: none yet)
    csel,        \* per caller: the latest selection
    clog,        \* per caller: the statements completed, in order
    cerr,        \* per caller: the error its call failed with
    csaved,      \* per caller: the figure written to save_string (0: none)
    cshown,      \* per caller: the figures its plt.show displayed
    cclosed,     \* per caller: the figure its plt.close closed (0: none)
    cbefore,     \* per caller: the open figures when its call started
    cafter       \* per caller: the open figures when its call returned

plotVars == <<serialized, figs, nextFig, cstat, cpc, cargs, cfig, csel, clog,
              cerr, csaved, cshown, cclosed, cbefore, cafter>>

vars == <<preVars, plotVars>>


(***************************************************************************)
(* Strings as Python sees them: sequences of characters.                   *)
(***************************************************************************)
Token == <<".", "r", "1", "8", "0", "W">>

\* "d/201907.r180W.nc"
FileJuly == <<"d", "/", "2", "0", "1", "9", "0", "7">> \o Token \o <<".", "n", "c">>
\* "202012.r180W.r180W": the token occurs twice, the month precedes the first
FileDecember == <<"2", "0", "2", "0", "1", "2">> \o Token \o Token
\* "201913.r180W.nc": six digits, but no month 13
FileMonth13 == <<"2", "0", "1", "9", "1", "3">> \o Token \o <<".", "n", "c">>
\* "201907.nc": no token at all
FileNoToken == <<"2", "0", "1", "9", "0", "7", ".", "n", "c">>
\* "a.r180W/201907.r180W": the token also occurs in the directory name
FileDirToken == <<"a">> \o Token \o <<"/", "2", "0", "1", "9", "0", "7">> \o Token

Filenames == {FileJuly, FileDecember, FileMonth13, FileNoToken, FileDirToken}

Min(a, b) == IF a < b THEN a ELSE b
Max(a, b) == IF a > b THEN a ELSE b

\* s[lo:hi] with Python's rules for negative and out-of-range indices;
\* hi = 0 stands for an omitted upper index (s[lo:])
PySlice(s, lo, hi) ==
    LET n == Len(s)
        norm(i) == IF i < 0 THEN Max(n + i, 0) ELSE Min(i, n)
        a == norm(lo)
        b == IF hi = 0 THEN n ELSE norm(hi)
    IN  SubSeq(s, a + 1, b)

\* the 1-based indices at which tok occurs in s
Occurrences(s, tok) ==
    {i \in 1..(Len(s) - Len(tok) + 1) : SubSeq(s, i, i + Len(tok) - 1) = tok}

\* s.split(tok)[0]: the text before the first occurrence of tok, or all of s
SplitHead(s, tok) ==
    LET occ == Occurrences(s, tok)
    IN  IF occ = {} THEN s
        ELSE LET first == CHOOSE i \in occ : \A j \in occ : i <= j
             IN  SubSeq(s, 1, first - 1)

Digits == <<"0", "1", "2", "3", "4", "5", "6", "7", "8", "9">>
IsDigit(ch) == \E i \in 1..10 : Digits[i] = ch
DigitVal(ch) == (CHOOSE i \in 1..10 : Digits[i] = ch) - 1

RECURSIVE ToNumber(_)
ToNumber(s) ==
    IF s = <<>> THEN 0
    ELSE 10 * ToNumber(SubSeq(s, 1, Len(s) - 1)) + DigitVal(s[Len(s)])

\* the two pieces of the f-string of line 51
YearText(fn) == PySlice(SplitHead(fn, Token), -6, -2)
MonthText(fn) == PySlice(SplitHead(fn, Token), -2, 0)

\* pandas parses "<YearText>-<MonthText>-01" as a date exactly when the year
\* is four digits and the month two digits naming a month
StartParses(fn) ==
    /\ Len(YearText(fn)) = 4
    /\ Len(MonthText(fn)) = 2
    /\ \A i \in 1..4 : IsDigit(YearText(fn)[i])
    /\ \A i \in 1..2 : IsDigit(MonthText(fn)[i])
    /\ ToNumber(MonthText(fn)) \in 1..12
    /\ ToNumber(YearText(fn)) >= 1

\* a timestamp: `hour` hours after 00:00 of day 1 of the month
Timestamp(y, m, k) == [year |-> y, month |-> m, hour |-> k]

\* pd.date_range(start=..., freq="1H", periods=n)
DateRangeOf(fn, n) ==
    [i \in 1..n |-> Timestamp(ToNumber(YearText(fn)), ToNumber(MonthText(fn)), i - 1)]

\* datetime_range + timedelta(hours=1)
ShiftOneHour(r) == [i \in 1..Len(r) |-> [r[i] EXCEPT !.hour = @ + 1]]

(***************************************************************************)
(* Files and datasets.                                                     *)
(***************************************************************************)
Cells == 1..NCells
CoordFields == {"longitude", "latitude", "time"}

Positions(D, H) == (1..D) \X (1..H) \X Cells

NoOverride == [on |-> FALSE]
Overrides(vs, D, H) ==
    {NoOverride} \cup
    {[on |-> TRUE, n |-> n, pos |-> p, v |-> v] :
        n \in vs, p \in Positions(D, H), v \in {Sentinel, DeclaredFill}}

\* The files a call may be pointed at: a missing file, a file without the
\* Days/Hours axes, or a file with both axes, some of the candidate variables,
\* possibly a declared _FillValue, and possibly one stored value that is the
\* sentinel or the declared fill value.
Files ==
    {[exists |-> FALSE]} \cup
    {[exists |-> TRUE, vars |-> vs, hasAxes |-> FALSE, nDays |-> 0, nHours |-> 0,
      fill |-> fl, ov |-> NoOverride] :
        vs \in SUBSET CandNames, fl \in {NoFill, DeclaredFill}} \cup
    UNION {
        {[exists |-> TRUE, vars |-> vs, hasAxes |-> TRUE, nDays |-> D, nHours |-> H,
          fill |-> fl, ov |-> o] :
            fl \in {NoFill, DeclaredFill}, o \in Overrides(vs, D, H)} :
        vs \in SUBSET CandNames, D \in 1..MaxDays, H \in 1..MaxHours}

\* the value the file stores
Raw(f, n, p) ==
    IF f.ov.on /\ f.ov.n = n /\ f.ov.pos = p THEN f.ov.v ELSE <<n, p[1], p[2], p[3]>>

\* mask_and_scale=True: a stored value equal to the declared fill value is
\* read as NaN
Decode(v, fl) == IF fl # NoFill /\ v = fl THEN NaN ELSE v

\* xr.open_dataset(filename, mask_and_scale=True)
OpenDataset(f) ==
    [open |-> TRUE, vars |-> f.vars, hasAxes |-> f.hasAxes,
     Days |-> f.nDays, Hours |-> f.nHours,
     data |-> [n \in f.vars |->
                 [p \in Positions(f.nDays, f.nHours) |-> Decode(Raw(f, n, p), f.fill)]]]

\* ds[name] succeeds
HasField(d, n) == n \in d.vars \cup CoordFields

CandLists == UNION {[1..n -> CandNames] : n \in 1..MaxCand}

(***************************************************************************)
(* open_and_preprocess                                                     *)
(***************************************************************************)
\* the (day, hour) pairs in the order stack(Datetime=["Days","Hours"]) lays
\* them out: for each day in turn, its hours in turn (the variant is the
\* order of stack(Datetime=["Hours","Days"]): for each hour, the days)
RECURSIVE StackIndex_HourMajor(_, _)
StackIndex_HourMajor(D, H) ==
    IF H = 0 THEN <<>>
    ELSE StackIndex_HourMajor(D, H - 1) \o [d \in 1..D |-> <<d, H>>]

RECURSIVE StackIndex(_, _)
StackIndex(D, H) ==
    IF D = 0 THEN <<>>
    ELSE StackIndex(D - 1, H) \o [h \in 1..H |-> <<D, h>>]

\* the condition of ds.where: keep where ds[var] != 1e15 (the variant keeps
\* where no variable of the file is 1e15)
WhereCond_AnyVariable(d, v, p) == \A n \in d.vars : d.data[n][p] # Sentinel

WhereCond(d, v, p) == d.data[v][p] # Sentinel

\* ds.where(cond, nan)
Where(d, v, n, p) == IF WhereCond(d, v, p) THEN d.data[n][p] ELSE NaN

\* lines 62-77: mask, re-key the coordinates, collapse Days and Hours into
\* Datetime, keep the one variable
Rekeyed(d, v, dtr) ==
    LET idx == StackIndex(d.Days, d.Hours)
    IN  [name |-> v,
         Datetime |-> dtr,
         cells |-> Cells,
         missing_value |-> NaN,
         data |-> [ck \in Cells \X (1..Len(idx)) |->
                     Where(d, v, v, <<idx[ck[2]][1], idx[ck[2]][2], ck[1]>>)]]

\* where the scan goes after looking up candidate i of n: `break` on a hit,
\* `continue` on a KeyError, and the loop ends after the last candidate
\* (one variant never breaks, the other leaves the loop on the first KeyError)
ScanPc_NoBreak(found, i, n) == IF i = n THEN "daterange" ELSE "scan"

ScanPc_BreakOnMiss(found, i, n) == "daterange"

ScanPc(found, i, n) ==
    IF found THEN "daterange" ELSE IF i = n THEN "daterange" ELSE "scan"

\* number of timestamps asked of pd.date_range
Periods(d) == d.Days * d.Hours

\* line 57: one hour is added to every timestamp (the variant adds none)
HourShift_None(r) == r

HourShift(r) == ShiftOneHour(r)

Fail(e) ==
    /\ ppc' = "failed"
    /\ perror' = e

\* line 35 and line 38: the call starts and opens the file
Open ==
    /\ ppc = "idle"
    /\ \E fn \in Filenames, cs \in CandLists, f \in Files :
        /\ filename' = fn
        /\ variables' = cs
        /\ file' = f
        /\ IF f.exists
           THEN /\ ds' = OpenDataset(f)
                /\ handleOpen' = TRUE
                /\ ppc' = "scan"
                /\ perror' = ""
           ELSE /\ Fail("FileError")
                /\ UNCHANGED <<ds, handleOpen>>
    /\ UNCHANGED <<var, scanIdx, lookups, datetime_range, newds, fileWrites>>
    /\ UNCHANGED plotVars

\* lines 41-46: one iteration of the scan
ScanStep ==
    /\ ppc = "scan"
    /\ scanIdx <= Len(variables)
    /\ var' = variables[scanIdx]
    /\ lookups' = Append(lookups, variables[scanIdx])
    /\ scanIdx' = scanIdx + 1
    /\ ppc' = ScanPc(HasField(ds, variables[scanIdx]), scanIdx, Len(variables))
    /\ UNCHANGED <<filename, variables, file, ds, datetime_range, newds, perror,
                   handleOpen, fileWrites>>
    /\ UNCHANGED plotVars

\* lines 50-57: the timestamps
DateRange ==
    /\ ppc = "daterange"
    /\ IF ~ds.hasAxes
       THEN Fail("AttributeError") /\ UNCHANGED datetime_range
       ELSE IF ~StartParses(filename)
       THEN Fail("ValueError") /\ UNCHANGED datetime_range
       ELSE /\ datetime_range' = HourShift(DateRangeOf(filename, Periods(ds)))
            /\ ppc' = "rekey"
            /\ UNCHANGED perror
    /\ UNCHANGED <<filename, variables, file, ds, var, scanIdx, lookups, newds,
                   handleOpen, fileWrites>>
    /\ UNCHANGED plotVars

\* lines 62-77: the new dataset
Rekey ==
    /\ ppc = "rekey"
    /\ IF ~HasField(ds, var)
       THEN Fail("KeyError") /\ UNCHANGED newds
       ELSE /\ newds' = Rekeyed(ds, var, datetime_range)
            /\ ppc' = "return"
            /\ UNCHANGED perror
    /\ UNCHANGED <<filename, variables, file, ds, var, scanIdx, lookups,
                   datetime_range, handleOpen, fileWrites>>
    /\ UNCHANGED plotVars

\* line 80
Return ==
    /\ ppc = "return"
    /\ ppc' = "returned"
    /\ UNCHANGED <<filename, variables, file, ds, var, scanIdx, lookups,
                   datetime_range, newds, perror, handleOpen, fileWrites>>
    /\ UNCHANGED plotVars

InitPre ==
    /\ ppc = "idle"
    /\ filename = <<>>
    /\ variables = <<>>
    /\ file = [exists |-> FALSE]
    /\ ds = NoDs
    /\ var = Unbound
    /\ scanIdx = 1
    /\ lookups = <<>>
    /\ datetime_range = <<>>
    /\ newds = NoField
    /\ perror = ""
    /\ handleOpen = FALSE
    /\ fileWrites = 0


(***************************************************************************)
(* Properties of open_and_preprocess                                       *)
(***************************************************************************)
Opened == ppc \notin {"idle"} /\ ds # NoDs
ScanDone == Opened /\ ppc # "scan"
Ended == ppc \in {"returned", "failed"}
HasResult == ppc \in {"return", "returned"}

Matches == {i \in 1..Len(variables) : HasField(ds, variables[i])}
FirstMatch == CHOOSE i \in Matches : \A j \in Matches : i <= j

\* the filenames of the model whose six characters before '.r180W' are YYYYMM
WellNamed == filename \in {FileJuly, FileDecember}
FileYear == IF filename = FileJuly THEN 2019 ELSE 2020
FileMonth == IF filename = FileJuly THEN 7 ELSE 12

\* C1: when at least one candidate is a field of the dataset, the active
\* variable is the first candidate in list order that is one: no earlier
\* candidate is a field, the candidates after it are never looked up, and the
\* returned field holds exactly that variable.
C1_FirstMatchIsActive ==
    (Opened /\ Matches # {}) =>
        /\ Len(lookups) <= FirstMatch
        /\ lookups = SubSeq(variables, 1, Len(lookups))
        /\ ScanDone =>
            /\ var = variables[FirstMatch]
            /\ \A j \in 1..(FirstMatch - 1) : ~HasField(ds, variables[j])
            /\ lookups = SubSeq(variables, 1, FirstMatch)
        /\ HasResult => newds.name = variables[FirstMatch]

C1_Witness ==
    /\ ppc = "returned"
    /\ Len(variables) = 2
    /\ variables[1] # variables[2]
    /\ HasField(ds, variables[1]) /\ HasField(ds, variables[2])
    /\ newds.name = variables[1]
    /\ lookups = <<variables[1]>>

\* the value the file stores for the active variable at 0-based day d0, hour
\* h0 and cell c
Stored(d0, h0, c) == Raw(file, var, <<d0 + 1, h0 + 1, c>>)
\* the value of the returned field at cell c and 0-based Datetime position k
Returned(c, k) == newds.data[<<c, k + 1>>]

C3_DatetimeAxis ==
    WellNamed =>
        /\ perror # "ValueError"
        /\ ppc \in {"rekey", "return", "returned"} =>
            /\ Len(datetime_range) = ds.Days * ds.Hours
            /\ datetime_range[1] = Timestamp(FileYear, FileMonth, 1)
            /\ \A i \in 1..(Len(datetime_range) - 1) :
                datetime_range[i + 1] =
                    [datetime_range[i] EXCEPT !.hour = @ + 1]
        /\ HasResult => newds.Datetime = datetime_range

C3_Witness ==
    /\ ppc = "returned"
    /\ filename = FileJuly
    /\ ds.Days = MaxDays /\ ds.Hours = MaxHours
    /\ Len(newds.Datetime) = MaxDays * MaxHours
    /\ newds.Datetime[1] = Timestamp(2019, 7, 1)

\* C7 (as claimed): whenever the call has ended, by returning or by failing,
\* the file handle it opened has been closed and it has written to no file.
C7_HandleClosedAtExit ==
    Ended => (~handleOpen /\ fileWrites = 0)

\* C8 (as claimed): when no candidate is a field of the dataset, the scan
\* leaves the last candidate as the active name and the call ends in a lookup
\* failure on that name, never returning a field.
C8_EndsInLookupFailure ==
    (ScanDone /\ Matches = {}) =>
        /\ var = variables[Len(variables)]
        /\ lookups = variables
        /\ ~HasResult /\ newds = NoField
        /\ Ended => (ppc = "failed" /\ perror = "KeyError")

\* C8 (amended): when no candidate is a field of the dataset, the scan raises
\* nothing of its own and leaves the last candidate as the active name; the
\* call then ends in a failure and never returns a field: the failure of the
\* timestamp derivation when the file lacks the Days/Hours axes or the
\* filename does not give a year and month, which comes first, and otherwise
\* a lookup failure on the unresolved name.  A returned field is always a
\* field of one of the candidates.
C8_EndsInFailure ==
    /\ (ScanDone /\ Matches = {}) =>
        /\ var = variables[Len(variables)]
        /\ lookups = variables
        /\ ~HasResult /\ newds = NoField
        /\ ppc = "daterange" => perror = ""
        /\ Ended =>
            /\ ppc = "failed"
            /\ perror = IF ~ds.hasAxes THEN "AttributeError"
                        ELSE IF ~WellNamed THEN "ValueError"
                        ELSE "KeyError"
    /\ HasResult => \E i \in 1..Len(variables) : newds.name = variables[i]

C8_Witness ==
    /\ ppc = "failed"
    /\ perror = "KeyError"
    /\ Len(variables) = 2
    /\ variables[1] # variables[2]
    /\ Matches = {}
    /\ var = variables[2]

\* C10: with H = len(Hours), the value at 0-based day d and hour h of the
\* source is in the returned field at Datetime position d*H + h, whose
\* timestamp is day 1 of the file's month at 00:00 plus d*H + h + 1 hours;
\* the collapse keeps the number of values and their cell.
C10_CollapseKeepsTimestamps ==
    HasResult =>
        /\ DOMAIN newds.data = Cells \X (1..(ds.Days * ds.Hours))
        /\ Len(newds.Datetime) = ds.Days * ds.Hours
        /\ \A d0 \in 0..(ds.Days - 1), h0 \in 0..(ds.Hours - 1), c \in Cells :
            LET k == d0 * ds.Hours + h0
                v == ds.data[var][<<d0 + 1, h0 + 1, c>>]
            IN  /\ Returned(c, k) = IF v = Sentinel THEN NaN ELSE v
                /\ newds.Datetime[k + 1].hour = k + 1
                /\ WellNamed =>
                    newds.Datetime[k + 1] = Timestamp(FileYear, FileMonth, d0 * ds.Hours + h0 + 1)

C10_Witness ==
    /\ ppc = "returned"
    /\ ds.Days = 2 /\ ds.Hours = 2
    /\ newds.data[<<1, 2>>] = <<var, 1, 2, 1>>
    /\ newds.data[<<1, 3>>] = <<var, 2, 1, 1>>
    /\ newds.Datetime[3].hour = 3

(***************************************************************************)
(* case_study_plotting                                                     *)
(*                                                                         *)
(* pyplot keeps the open figures in a process-wide registry; the figure    *)
(* made or activated last is the current one.  plt.savefig and plt.close   *)
(* act on the current figure, plt.show displays every open figure.         *)
(***************************************************************************)
Callers == {1, 2}

None == "<None>"
GoodPath == "out.png"
BadPath == "nodir/out.png"
SavePaths == {None, GoodPath, BadPath}

\* a field's coordinates: longitudes, latitudes, and hours on its Datetime axis
GridA == [Longitudes |-> 1..2, Latitudes |-> 1..2, Datetime |-> 1..2]
GridB == [Longitudes |-> 3..4, Latitudes |-> 1..2, Datetime |-> 3..4]
Fields == {GridA, GridB}

\* lon_range and lat_range are slices <<lo, hi>>, date_time is one label
Windows ==
    [lon : {<<1, 2>>, <<3, 4>>, <<7, 8>>}, lat : {<<1, 2>>, <<7, 8>>}, t : {1, 3, 9}]

AllArgs ==
    [ds_tmp : Fields, CS1_tmp : Fields, CS2_tmp : Fields, w : Windows,
     save_string : SavePaths]

\* the arguments used when two callers run side by side
FewArgs ==
    [ds_tmp : {GridA}, CS1_tmp : {GridA}, CS2_tmp : {GridA},
     w : {[lon |-> <<1, 2>>, lat |-> <<1, 2>>, t |-> 1],
          [lon |-> <<7, 8>>, lat |-> <<1, 2>>, t |-> 1],
          [lon |-> <<7, 8>>, lat |-> <<7, 8>>, t |-> 9]},
     save_string : {GoodPath}]

NoArgs == [save_string |-> None]
NoSel == [made |-> FALSE]

\* the statements of case_study_plotting, in program order (the variant
\* displays before it saves)
PlotSteps_ShowFirst ==
    <<"subplots", "sel_ds", "pcolormesh", "gridlines", "colorbar",
      "sel_CS1", "contour_1", "clabel_1", "sel_CS2", "contour_2", "clabel_2",
      "coastlines", "legend", "set_title", "show", "savefig", "close", "return">>

PlotSteps ==
    <<"subplots", "sel_ds", "pcolormesh", "gridlines", "colorbar",
      "sel_CS1", "contour_1", "clabel_1", "sel_CS2", "contour_2", "clabel_2",
      "coastlines", "legend", "set_title", "savefig", "show", "close", "return">>

SelSteps == {"sel_ds", "sel_CS1", "sel_CS2"}
DataDrawSteps == {"pcolormesh", "contour_1", "contour_2"}
DrawSteps ==
    {"pcolormesh", "gridlines", "colorbar", "contour_1", "clabel_1",
     "contour_2", "clabel_2", "coastlines", "legend", "set_title"}


Range(q) == {q[i] : i \in 1..Len(q)}
Without(q, x) == SelectSeq(q, LAMBDA y : y # x)

\* Gcf.get_active(): the current figure (the variant takes the oldest one)
CurrentFigure_Oldest(fs) == fs[1]

CurrentFigure(fs) == fs[Len(fs)]

\* .sel(Datetime=label) raises KeyError when the label is not on the axis
\* (the variant selects the nearest label and never raises)
SelRaises_Nearest(f, w) == FALSE

SelRaises(f, w) == w.t \notin f.Datetime

\* .sel(Latitudes=slice, Longitudes=slice): the coordinates inside the slices
Select(f, w) ==
    [made |-> TRUE,
     Longitudes |-> {x \in f.Longitudes : w.lon[1] <= x /\ x <= w.lon[2]},
     Latitudes |-> {y \in f.Latitudes : w.lat[1] <= y /\ y <= w.lat[2]}]

IsEmpty(sel) == sel.Longitudes = {} \/ sel.Latitudes = {}

\* line 219
ShouldSave(a) == a.save_string # None

FieldOf(a, step) ==
    IF step = "sel_ds" THEN a.ds_tmp
    ELSE IF step = "sel_CS1" THEN a.CS1_tmp ELSE a.CS2_tmp

Step(c) == PlotSteps[cpc[c]]
Running(c, kind) == cstat[c] = "running" /\ Step(c) \in kind

Advance(c) ==
    /\ cpc' = [cpc EXCEPT ![c] = @ + 1]
    /\ clog' = [clog EXCEPT ![c] = Append(@, Step(c))]

Raise(c, e) ==
    /\ cstat' = [cstat EXCEPT ![c] = "failed"]
    /\ cerr' = [cerr EXCEPT ![c] = [step |-> Step(c), kind |-> e]]
    /\ UNCHANGED <<cpc, clog>>

\* the call starts
StartCall(c, A) ==
    /\ cstat[c] # "running"
    /\ nextFig <= MaxFigs
    /\ serialized => \A o \in Callers : cstat[o] # "running"
    /\ \E a \in A : cargs' = [cargs EXCEPT ![c] = a]
    /\ cstat' = [cstat EXCEPT ![c] = "running"]
    /\ cpc' = [cpc EXCEPT ![c] = 1]
    /\ cfig' = [cfig EXCEPT ![c] = 0]
    /\ csel' = [csel EXCEPT ![c] = NoSel]
    /\ clog' = [clog EXCEPT ![c] = <<>>]
    /\ cerr' = [cerr EXCEPT ![c] = [step |-> "", kind |-> ""]]
    /\ csaved' = [csaved EXCEPT ![c] = 0]
    /\ cshown' = [cshown EXCEPT ![c] = {}]
    /\ cclosed' = [cclosed EXCEPT ![c] = 0]
    /\ cbefore' = [cbefore EXCEPT ![c] = Range(figs)]
    /\ cafter' = [cafter EXCEPT ![c] = {}]
    /\ UNCHANGED <<serialized, figs, nextFig>>
    /\ UNCHANGED preVars

\* line 138: plt.subplots makes a figure, which becomes the current one
Subplots(c) ==
    /\ Running(c, {"subplots"})
    /\ figs' = Append(figs, nextFig)
    /\ nextFig' = nextFig + 1
    /\ cfig' = [cfig EXCEPT ![c] = nextFig]
    /\ Advance(c)
    /\ UNCHANGED <<serialized, cstat, cargs, csel, cerr, csaved, cshown,
                   cclosed, cbefore, cafter>>
    /\ UNCHANGED preVars

\* lines 141, 162, 181: the three selections
Sel(c) ==
    /\ Running(c, SelSteps)
    /\ LET f == FieldOf(cargs[c], Step(c))
       IN  IF SelRaises(f, cargs[c].w)
           THEN Raise(c, "KeyError") /\ UNCHANGED csel
           ELSE /\ csel' = [csel EXCEPT ![c] = Select(f, cargs[c].w)]
                /\ Advance(c)
                /\ UNCHANGED <<cstat, cerr>>
    /\ UNCHANGED <<serialized, figs, nextFig, cargs, cfig, csaved, cshown,
                   cclosed, cbefore, cafter>>
    /\ UNCHANGED preVars

\* lines 147-217: the drawing statements; drawing an empty selection may be
\* refused by the plotting library
Draw(c) ==
    /\ Running(c, DrawSteps)
    /\ \/ Advance(c) /\ UNCHANGED <<cstat, cerr>>
       \/ /\ Step(c) \in DataDrawSteps
          /\ IsEmpty(csel[c])
          /\ Raise(c, "ValueError")
    /\ UNCHANGED <<serialized, figs, nextFig, cargs, cfig, csel, csaved,
                   cshown, cclosed, cbefore, cafter>>
    /\ UNCHANGED preVars

\* lines 219-220: plt.savefig writes the current figure (gcf() makes one
\* when none is open)
Savefig(c) ==
    /\ Running(c, {"savefig"})
    /\ IF ~ShouldSave(cargs[c])
       THEN /\ cpc' = [cpc EXCEPT ![c] = @ + 1]
            /\ UNCHANGED <<figs, nextFig, cstat, clog, cerr, csaved>>
       ELSE LET fs == IF figs = <<>> THEN <<nextFig>> ELSE figs
            IN  /\ figs' = fs
                /\ nextFig' = IF figs = <<>> THEN nextFig + 1 ELSE nextFig
                /\ IF cargs[c].save_string = BadPath
                   THEN Raise(c, "OSError") /\ UNCHANGED csaved
                   ELSE /\ csaved' = [csaved EXCEPT ![c] = CurrentFigure(fs)]
                        /\ Advance(c)
                        /\ UNCHANGED <<cstat, cerr>>
    /\ UNCHANGED <<serialized, cargs, cfig, csel, cshown, cclosed, cbefore,
                   cafter>>
    /\ UNCHANGED preVars

\* line 222: plt.show displays all open figures
Show(c) ==
    /\ Running(c, {"show"})
    /\ cshown' = [cshown EXCEPT ![c] = Range(figs)]
    /\ Advance(c)
    /\ UNCHANGED <<serialized, figs, nextFig, cstat, cargs, cfig, csel, cerr,
                   csaved, cclosed, cbefore, cafter>>
    /\ UNCHANGED preVars

\* line 223: plt.close closes the current figure, if there is one
Close(c) ==
    /\ Running(c, {"close"})
    /\ IF figs = <<>>
       THEN UNCHANGED <<figs, cclosed>>
       ELSE /\ figs' = Without(figs, CurrentFigure(figs))
            /\ cclosed' = [cclosed EXCEPT ![c] = CurrentFigure(figs)]
    /\ Advance(c)
    /\ UNCHANGED <<serialized, nextFig, cstat, cargs, cfig, csel, cerr,
                   csaved, cshown, cbefore, cafter>>
    /\ UNCHANGED preVars

\* line 225
ReturnPlot(c) ==
    /\ Running(c, {"return"})
    /\ cstat' = [cstat EXCEPT ![c] = "returned"]
    /\ cafter' = [cafter EXCEPT ![c] = Range(figs)]
    /\ UNCHANGED <<serialized, figs, nextFig, cpc, cargs, cfig, csel, clog,
                   cerr, csaved, cshown, cclosed, cbefore>>
    /\ UNCHANGED preVars

InitPlotVars ==
    /\ figs = <<>>
    /\ nextFig = 1
    /\ cstat = [c \in Callers |-> "idle"]
    /\ cpc = [c \in Callers |-> 1]
    /\ cargs = [c \in Callers |-> NoArgs]
    /\ cfig = [c \in Callers |-> 0]
    /\ csel = [c \in Callers |-> NoSel]
    /\ clog = [c \in Callers |-> <<>>]
    /\ cerr = [c \in Callers |-> [step |-> "", kind |-> ""]]
    /\ csaved = [c \in Callers |-> 0]
    /\ cshown = [c \in Callers |-> {}]
    /\ cclosed = [c \in Callers |-> 0]
    /\ cbefore = [c \in Callers |-> {}]
    /\ cafter = [c \in Callers |-> {}]

\* open_and_preprocess, called once with any arguments
Init == InitPre /\ InitPlotVars /\ serialized = TRUE
Next == Open \/ ScanStep \/ DateRange \/ Rekey \/ Return
Spec == Init /\ [][Next]_vars

\* case_study_plotting: one caller, calling again and again with any arguments
InitPlot == InitPre /\ InitPlotVars /\ serialized = TRUE
NextPlot ==
    \/ StartCall(1, AllArgs)
    \/ Subplots(1)
    \/ Sel(1)
    \/ Draw(1)
    \/ Savefig(1)
    \/ Show(1)
    \/ Close(1)
    \/ ReturnPlot(1)
SpecPlot == InitPlot /\ [][NextPlot]_vars

\* case_study_plotting: two callers, serialized externally or not
InitConc == InitPre /\ InitPlotVars /\ serialized \in BOOLEAN
NextConc ==
    \E c \in Callers :
        \/ StartCall(c, FewArgs)
        \/ Subplots(c)
        \/ Sel(c)
        \/ Draw(c)
        \/ Savefig(c)
        \/ Show(c)
        \/ Close(c)
        \/ ReturnPlot(c)
SpecConc == InitConc /\ [][NextConc]_vars


(***************************************************************************)
(* Properties of case_study_plotting                                       *)
(***************************************************************************)
Done(c) == cstat[c] \in {"returned", "failed"}
Logged(c, x) == x \in Range(clog[c])
PosIn(q, x) == IF x \in Range(q) THEN CHOOSE i \in 1..Len(q) : q[i] = x ELSE 0
Before(c, x, y) == Logged(c, x) /\ Logged(c, y) /\ PosIn(clog[c], x) < PosIn(clog[c], y)
Rendered(c) == Logged(c, "set_title")

\* C4 (as claimed): on every exit path of the call the figure it created is
\* no longer open when the call ends.
C4_FigureClosedOnEveryExit ==
    \A c \in Callers : Done(c) => cfig[c] \notin Range(figs)

\* what holds of the order of the statements in every call
C5_Order(c) ==
    /\ csaved[c] # 0 =>
        /\ cargs[c].save_string # None
        /\ csaved[c] = cfig[c]
        /\ \A x \in DrawSteps : Before(c, x, "savefig")
        /\ ~Before(c, "show", "savefig")
    /\ Logged(c, "show") => (cfig[c] \in cshown[c] /\ \A x \in DrawSteps : Before(c, x, "show"))
    /\ Logged(c, "close") => (Before(c, "show", "close") /\ cclosed[c] = cfig[c])
    /\ cfig[c] # 0 /\ ~Logged(c, "close") => cfig[c] \in Range(figs)

\* C5 (as claimed): in every call that reaches the end of rendering, the image
\* is written iff a save path was supplied, after all drawing and before the
\* display; the figure is always displayed, and closed only after that.
C5_SavedIffPathAndAlwaysShown ==
    \A c \in Callers :
        /\ C5_Order(c)
        /\ (Rendered(c) /\ Done(c)) =>
            /\ (csaved[c] # 0) <=> (cargs[c].save_string # None)
            /\ Logged(c, "show")
            /\ cfig[c] \in cshown[c]

\* C5 (amended): in every call that reaches the end of rendering, the write is
\* attempted iff a save path was supplied, after all drawing and before the
\* display, and the image is written iff that write succeeds; when no write is
\* attempted or the write succeeds the figure is displayed and then closed,
\* and it is closed only after it has been displayed; when the write fails the
\* call ends with that error, the figure neither displayed nor closed.
C5_SavedIffWriteSucceeds ==
    \A c \in Callers :
        /\ C5_Order(c)
        /\ (Rendered(c) /\ Done(c)) =>
            IF cargs[c].save_string = BadPath
            THEN /\ cstat[c] = "failed"
                 /\ cerr[c] = [step |-> "savefig", kind |-> "OSError"]
                 /\ csaved[c] = 0
                 /\ ~Logged(c, "show") /\ ~Logged(c, "close")
                 /\ cshown[c] = {}
            ELSE /\ cstat[c] = "returned"
                 /\ (csaved[c] # 0) <=> (cargs[c].save_string # None)
                 /\ Logged(c, "savefig") <=> (cargs[c].save_string # None)
                 /\ Logged(c, "show") /\ cfig[c] \in cshown[c]
                 /\ Logged(c, "close") /\ cclosed[c] = cfig[c]

C5_Witness ==
    /\ cstat[1] = "returned"
    /\ cargs[1].save_string = GoodPath
    /\ csaved[1] = cfig[1]
    /\ Before(1, "set_title", "savefig")
    /\ Before(1, "savefig", "show")
    /\ Before(1, "show", "close")

\* every coordinate of the window lies outside the field's coordinates
EntirelyOutside(w, f) ==
    /\ \A x \in f.Longitudes : x < w.lon[1] \/ x > w.lon[2]
    /\ \A y \in f.Latitudes : y < w.lat[1] \/ y > w.lat[2]
    /\ (\A t \in f.Datetime : w.t < t) \/ (\A t \in f.Datetime : w.t > t)

FieldsOf(a) == {a.ds_tmp, a.CS1_tmp, a.CS2_tmp}

C9_SerializedCallsOwnTheirFigure ==
    serialized =>
        \A c \in Callers :
            /\ csaved[c] # 0 => csaved[c] = cfig[c]
            /\ Logged(c, "show") => cfig[c] \in cshown[c]
            /\ cclosed[c] # 0 => cclosed[c] = cfig[c]
            /\ cstat[c] = "returned" =>
                /\ cfig[c] # 0 /\ cclosed[c] = cfig[c]
                /\ cargs[c].save_string # None => csaved[c] = cfig[c]
                /\ cafter[c] = cbefore[c]

C9_Witness ==
    /\ serialized
    /\ cstat[1] = "failed"
    /\ cstat[2] = "returned"
    /\ cbefore[2] # {}
    /\ csaved[2] = cfig[2]
    /\ cclosed[2] = cfig[2]
    /\ cafter[2] = cbefore[2]

\* without serialization a call's save or close can hit the other call's
\* figure: a state that is reached when the statements of two calls interleave
C9_CrossedFigures ==
    /\ ~serialized
    /\ \E c \in Callers :
        /\ cstat[c] = "returned"
        /\ cclosed[c] # cfig[c]
        /\ csaved[c] # 0 /\ csaved[c] # cfig[c]
=============================================================================
